---- MODULE Spec2Model ----
(***************************************************************************)
(* Model of the matching engine of the Cofacts proxy server (src/main.go): *)
(* isEquivalent / exist_same_url (URL equivalence), removeWhitespace,      *)
(* chunk / lcss_chunked (windowed longest common substring) and the        *)
(* decision loop of handleCofacts.                                         *)
(*                                                                         *)
(* Byte strings are sequences of byte values.  Three specifications share  *)
(* the variables:                                                          *)
(*   SpecLcss  calls lcss_chunked(x, y) and then lcss_chunked(y, x);       *)
(*   SpecUrl   calls isEquivalent(url1, url2) and isEquivalent(url2, url1);*)
(*   Spec      runs handleCofacts on one request.                          *)
(***************************************************************************)
EXTENDS Integers, Sequences, FiniteSets, TLC

VARIABLES
    \* ---- lcss_chunked activation (src/main.go:221-264)
    lpc,        \* position: "idle", "entry", "chunk", "scan", "returned", "exhausted"
    a, b,       \* the arguments of the current activation
    pass,       \* 1: chunk(b, 2*len(a)), 2: chunk(b[len(a):], 2*len(a))
    s,          \* chunk's argument s
    i,          \* chunk's loop variable
    chunks,     \* chunk's result under construction
    best,       \* lcss_chunked's best
    best_len,   \* lcss_chunked's best_len
    lret,       \* the value lcss_chunked returned
    \* ---- caller of lcss_chunked in SpecLcss
    x, y,       \* the two byte strings
    dcall,      \* 1: lcss_chunked(x, y) running, 2: lcss_chunked(y, x) running, 3: both returned
    r1, r2,     \* the results of the two calls
    \* ---- caller of isEquivalent in SpecUrl
    url1, url2, \* the two URL strings
    e12, e21,   \* outcome of isEquivalent(url1, url2) and of isEquivalent(url2, url1)
    \* ---- handleCofacts (src/main.go:292-333)
    hpc,        \* "idle", "start", "url_loop", "text_loop", "text_call", "done", "panic", "exhausted"
    text,       \* the query text
    request_urls,
    nodes,      \* respData.Data.ListArticles.Edges[*].Node
    idx,        \* loop index over the edges (1-based)
    panicked    \* the runtime error that ended the handler, or "none"

lvars == <<lpc, a, b, pass, s, i, chunks, best, best_len, lret>>
dvars == <<x, y, dcall, r1, r2>>
uvars == <<url1, url2, e12, e21>>
hvars == <<hpc, text, request_urls, nodes, idx, panicked>>
vars == <<lvars, dvars, uvars, hvars>>

\* ------------------------------------------------------------------ bounds
\* longest shorter argument x in SpecLcss
MaxA == 2
\* longest padding around the marker in the longer argument y in SpecLcss
MaxPad == 10

\* ------------------------------------------------------------------ helpers
Min(m, n) == IF m <= n THEN m ELSE n

RECURSIVE Rep(_, _)
\* n copies of byte c
Rep(c, n) == IF n = 0 THEN <<>> ELSE <<c>> \o Rep(c, n - 1)

\* all sequences over S of length at most n
SeqsUpTo(S, n) == UNION {[1..k -> S] : k \in 0..n}

\* Go's s[lo:hi] on a byte slice (0-based, hi exclusive)
Slice(str, lo, hi) == SubSeq(str, lo + 1, hi)

\* ------------------------------------------------------------------ LCSS primitive
\* lcss.LongestCommonSubstring(a, b) of gopkg.in/vmarkovtsev/go-lcss.v1: the
\* longest run of bytes occurring in both; ties: first occurrence by position
\* in the first argument.
RECURSIVE MatchLen(_, _, _, _)
\* length of the common run of p starting at index m and q starting at index n
MatchLen(p, q, m, n) ==
    IF m > Len(p) \/ n > Len(q) \/ p[m] # q[n] THEN 0
    ELSE 1 + MatchLen(p, q, m + 1, n + 1)

\* longest run of p starting at index m that occurs somewhere in q
RunAt(p, q, m) ==
    LET lens == {MatchLen(p, q, m, n) : n \in 1..Len(q)} \cup {0}
    IN  CHOOSE k \in lens : \A k2 \in lens : k2 <= k

LongestCommonSubstring(p, q) ==
    LET runs == [m \in 1..Len(p) |-> RunAt(p, q, m)]
        top  == CHOOSE k \in {runs[m] : m \in 1..Len(p)} \cup {0} :
                    \A m \in 1..Len(p) : runs[m] <= k
    IN  IF top = 0 THEN <<>>
        ELSE LET m0 == CHOOSE m \in 1..Len(p) :
                           /\ runs[m] = top
                           /\ \A m2 \in 1..(m - 1) : runs[m2] < top
             IN  SubSeq(p, m0, m0 + top - 1)

\* ------------------------------------------------------------------ lcss_chunked
\* a run that never leaves chunk's loop is followed for this many appended
\* windows (no terminating run over the modelled inputs needs as many) and is
\* then recorded as "exhausted": the loop appends until memory runs out
MaxChunks == 15

\* chunkSize of both calls of chunk (src/main.go:245, 254)
WindowSize(p) == 2 * Len(p)

\* mutant of SecondPassInput: the second partitioning is not offset
SecondPassInput_NoOffset(p, q) == q
\* argument s of the second call of chunk: b[len(a):]
SecondPassInput(p, q) == Slice(q, Len(p), Len(q))

\* mutant of SwapNeeded: the longer-first call is not redirected
SwapNeeded_Never(p, q) == FALSE
\* lcss_chunked's first test
SwapNeeded(p, q) == Len(p) > Len(q)

\* lcss_chunked's second test: no chunking unless b is at least 6 times as long
Direct(p, q) == Len(p) * 6 > Len(q)

RECURSIVE ScanChunks(_, _, _, _)
\* the loop `for _, chunk := range chunks` from chunk number k on: <<best, best_len>>
ScanChunks(p, cs, k, acc) ==
    IF k > Len(cs) THEN acc
    ELSE LET current == LongestCommonSubstring(p, cs[k])
         IN  IF Len(current) > acc[2]
             THEN ScanChunks(p, cs, k + 1, <<current, Len(current)>>)
             ELSE ScanChunks(p, cs, k + 1, acc)

\* if len(a) > len(b) { return lcss_chunked(b, a) }
LcssSwap ==
    /\ lpc = "entry"
    /\ SwapNeeded(a, b)
    /\ a' = b
    /\ b' = a
    /\ UNCHANGED <<lpc, pass, s, i, chunks, best, best_len, lret>>

\* if len(a)*6 > len(b) { return lcss.LongestCommonSubstring(a, b) }
LcssDirect ==
    /\ lpc = "entry"
    /\ ~SwapNeeded(a, b)
    /\ Direct(a, b)
    /\ lret' = LongestCommonSubstring(a, b)
    /\ lpc' = "returned"
    /\ UNCHANGED <<a, b, pass, s, i, chunks, best, best_len>>

\* best = empty, best_len = 0; chunks := chunk(b, 2*len(a)) is entered
LcssChunked ==
    /\ lpc = "entry"
    /\ ~SwapNeeded(a, b)
    /\ ~Direct(a, b)
    /\ best' = <<>>
    /\ best_len' = 0
    /\ pass' = 1
    /\ s' = b
    /\ i' = 0
    /\ chunks' = <<>>
    /\ lpc' = "chunk"
    /\ UNCHANGED <<a, b, lret>>

\* chunk: one iteration of `for i := 0; i < len(s); i += chunkSize`
ChunkIter ==
    /\ lpc = "chunk"
    /\ Len(s) # 0
    /\ i < Len(s)
    /\ Len(chunks) < MaxChunks
    /\ LET nn == Min(i + WindowSize(a), Len(s))
       IN  chunks' = Append(chunks, Slice(s, i, nn))
    /\ i' = i + WindowSize(a)
    /\ UNCHANGED <<lpc, a, b, pass, s, best, best_len, lret>>

\* chunk: the loop is still running after MaxChunks windows were appended
ChunkExhaust ==
    /\ lpc = "chunk"
    /\ Len(s) # 0
    /\ i < Len(s)
    /\ Len(chunks) >= MaxChunks
    /\ lpc' = "exhausted"
    /\ UNCHANGED <<a, b, pass, s, i, chunks, best, best_len, lret>>

\* chunk returns (len(s) == 0, or the loop condition fails)
ChunkReturn ==
    /\ lpc = "chunk"
    /\ Len(s) = 0 \/ i >= Len(s)
    /\ chunks' = IF Len(s) = 0 THEN <<>> ELSE chunks
    /\ lpc' = "scan"
    /\ UNCHANGED <<a, b, pass, s, i, best, best_len, lret>>

\* the first loop over the chunks, then chunk(b[len(a):], 2*len(a)) is entered
ScanFirst ==
    /\ lpc = "scan"
    /\ pass = 1
    /\ LET acc == ScanChunks(a, chunks, 1, <<best, best_len>>)
       IN  /\ best' = acc[1]
           /\ best_len' = acc[2]
    /\ pass' = 2
    /\ s' = SecondPassInput(a, b)
    /\ i' = 0
    /\ chunks' = <<>>
    /\ lpc' = "chunk"
    /\ UNCHANGED <<a, b, lret>>

\* the second loop over the chunks, then return best
ScanSecond ==
    /\ lpc = "scan"
    /\ pass = 2
    /\ LET acc == ScanChunks(a, chunks, 1, <<best, best_len>>)
       IN  /\ best' = acc[1]
           /\ best_len' = acc[2]
           /\ lret' = acc[1]
    /\ lpc' = "returned"
    /\ UNCHANGED <<a, b, pass, s, i, chunks>>

LcssIdle ==
    /\ lpc = "idle" /\ a = <<>> /\ b = <<>> /\ pass = 0 /\ s = <<>> /\ i = 0
    /\ chunks = <<>> /\ best = <<>> /\ best_len = 0 /\ lret = <<>>

\* ------------------------------------------------------------------ isEquivalent
\* A URL string is written as the record of the parts net/url finds in it:
\*   valid  whether url.Parse accepts the string
\*   host   the authority, path the path as a sequence of characters,
\*   query  the raw query as the sequence of its <<name, value>> pairs.
Hosts == {"example.com", "other.org"}
Paths == {<<>>, <<"/">>, <<"/", "x">>, <<"/", "x", "/">>, <<"/", "x", "/", "/">>, <<"/", "y">>}
Queries ==
    {<<>>, << <<"y", "1">> >>, << <<"y", "1">>, <<"z", "2">> >>,
     << <<"y", "2">> >>, << <<"y", "2">>, <<"y", "1">> >>}

Url(h, p, q) == [valid |-> TRUE, host |-> h, path |-> p, query |-> q]
\* a string url.Parse rejects, such as "http://example.com/%zz"
BadUrl == [valid |-> FALSE, host |-> "", path |-> <<>>, query |-> <<>>]

UrlStrings == {Url(h, p, q) : h \in Hosts, p \in Paths, q \in Queries} \cup {BadUrl}

\* url.Parse: the error, and the fields isEquivalent reads
Parse(str) ==
    [err |-> ~str.valid, Host |-> str.host, Path |-> str.path, RawQuery |-> str.query]

RECURSIVE TrimRight(_, _)
\* strings.TrimRight(str, cutset) for a one-character cutset
TrimRight(str, c) ==
    IF Len(str) > 0 /\ str[Len(str)] = c
    THEN TrimRight(SubSeq(str, 1, Len(str) - 1), c)
    ELSE str

RECURSIVE ValuesOf(_, _, _)
\* the values the raw query rq gives to name k, from pair n on, in order
ValuesOf(rq, k, n) ==
    IF n > Len(rq) THEN <<>>
    ELSE IF rq[n][1] = k THEN <<rq[n][2]>> \o ValuesOf(rq, k, n + 1)
    ELSE ValuesOf(rq, k, n + 1)

\* u.Query(): url.Values, name -> list of values
Query(u) ==
    [k \in {u.RawQuery[n][1] : n \in DOMAIN u.RawQuery} |-> ValuesOf(u.RawQuery, k, 1)]

\* q[k] on a url.Values: the empty list for a missing name
Lookup(q, k) == IF k \in DOMAIN q THEN q[k] ELSE <<>>

\* mutant of SamePath: the first URL's path is compared with itself
SamePath_Typo(u1, u2) == TrimRight(u1.Path, "/") = TrimRight(u1.Path, "/")
\* strings.TrimRight(u1.Path, "/") != strings.TrimRight(u2.Path, "/"), negated
SamePath(u1, u2) == TrimRight(u1.Path, "/") = TrimRight(u2.Path, "/")

\* the loop over q1: every value of every name of q1 is among q2's values of it
QueryContained(q1, q2) ==
    \A k \in DOMAIN q1 :
        \A n \in DOMAIN q1[k] :
            \E m \in DOMAIN Lookup(q2, k) : q1[k][n] = Lookup(q2, k)[m]

\* isEquivalent: "panic", "true" or "false"
isEquivalent(str1, str2) ==
    LET u1 == Parse(str1)
        u2 == Parse(str2)
    IN  IF u1.err THEN "panic"
        ELSE IF u2.err THEN "panic"
        ELSE IF u1.Host # u2.Host THEN "false"
        ELSE IF ~SamePath(u1, u2) THEN "false"
        ELSE IF QueryContained(Query(u1), Query(u2)) THEN "true"
        ELSE "false"

\* ------------------------------------------------------------------ handleCofacts
\* A text is a sequence of tokens: a byte value (below 256), or 255 + k for an
\* occurrence of the URL string UrlTable[k] (the bytes that spell it).
U_y1 == Url("example.com", <<"/", "x">>, << <<"y", "1">> >>)
U_y1z2 == Url("example.com", <<"/", "x">>, << <<"y", "1">>, <<"z", "2">> >>)
U_slash == Url("example.com", <<"/", "x", "/">>, <<>>)
U_other == Url("other.org", <<"/", "x">>, << <<"y", "1">> >>)

UrlTable == <<U_y1, U_y1z2, U_slash, BadUrl>>
UrlToken(k) == 255 + k
IsUrlToken(tok) == tok > 255

RECURSIVE FindAllString(_)
\* xurls.Strict().FindAllString(text, -1): the URL strings in the text, in order
FindAllString(txt) ==
    IF txt = <<>> THEN <<>>
    ELSE IF IsUrlToken(Head(txt))
         THEN <<UrlTable[Head(txt) - 255]>> \o FindAllString(Tail(txt))
         ELSE FindAllString(Tail(txt))

RECURSIVE ReplaceAll(_, _)
\* strings.ReplaceAll(str, c, "") for a one-byte c
ReplaceAll(str, c) ==
    IF str = <<>> THEN <<>>
    ELSE IF Head(str) = c THEN ReplaceAll(Tail(str), c)
    ELSE <<Head(str)>> \o ReplaceAll(Tail(str), c)

\* removeWhitespace: "\n", "\r", "\t" and " " are removed, in this order
removeWhitespace(str) == ReplaceAll(ReplaceAll(ReplaceAll(ReplaceAll(str, 10), 13), 9), 32)

RECURSIVE ExistFrom(_, _, _, _)
\* exist_same_url's loops, from hyperlink m and request URL n on
ExistFrom(hs, rs, m, n) ==
    IF m > Len(hs) THEN "false"
    ELSE IF n > Len(rs) THEN ExistFrom(hs, rs, m + 1, 1)
    ELSE LET e == isEquivalent(hs[m].Url, rs[n])
         IN  IF e = "false" THEN ExistFrom(hs, rs, m, n + 1) ELSE e

\* exist_same_url(node, request_urls): "panic", "true" or "false"
exist_same_url(node, rs) == ExistFrom(node.Hyperlinks, rs, 1, 1)

\* mutant of UrlBranch: a single URL in the query does not select the URL branch
UrlBranch_MoreThanOne(rs) == Len(rs) > 1
\* if len(request_urls) > 0
UrlBranch(rs) == Len(rs) > 0

\* mutant of IsMatchByText: the ratio is taken over the stripped query
IsMatchByText_StrippedLen(common, txt) ==
    IF Len(common) > 25 THEN "true"
    ELSE IF Len(removeWhitespace(txt)) = 0 THEN "panic"
    ELSE IF (Len(common) * 100) \div Len(removeWhitespace(txt)) >= 80 THEN "true"
    ELSE "false"
\* (len(common) > 25) || (len(common)*100/len(text) >= 80): "panic" is the
\* runtime error of the integer division by zero
IsMatchByText(common, txt) ==
    IF Len(common) > 25 THEN "true"
    ELSE IF Len(txt) = 0 THEN "panic"
    ELSE IF (Len(common) * 100) \div Len(txt) >= 80 THEN "true"
    ELSE "false"

\* callCofactsApi or json.Unmarshal fails: status 500, no candidate is decided
HandleApiError ==
    /\ hpc = "start"
    /\ hpc' = "error500"
    /\ UNCHANGED <<text, request_urls, nodes, idx, panicked, lvars>>

\* request_urls := rxStrict.FindAllString(text, -1) and the choice of the branch
HandleStart ==
    /\ hpc = "start"
    /\ request_urls' = FindAllString(text)
    /\ hpc' = IF UrlBranch(FindAllString(text)) THEN "url_loop" ELSE "text_loop"
    /\ idx' = 1
    /\ UNCHANGED <<text, nodes, panicked, lvars>>

\* node.IsMatch = exist_same_url(node, request_urls)
UrlIter ==
    /\ hpc = "url_loop"
    /\ idx <= Len(nodes)
    /\ exist_same_url(nodes[idx], request_urls) # "panic"
    /\ nodes' = [nodes EXCEPT ![idx].IsMatch =
                    (exist_same_url(nodes[idx], request_urls) = "true")]
    /\ idx' = idx + 1
    /\ UNCHANGED <<hpc, text, request_urls, panicked, lvars>>

\* isEquivalent panics on a URL that does not parse: the handler is abandoned
UrlIterPanic ==
    /\ hpc = "url_loop"
    /\ idx <= Len(nodes)
    /\ exist_same_url(nodes[idx], request_urls) = "panic"
    /\ hpc' = "panic"
    /\ panicked' = "url parse error"
    /\ UNCHANGED <<text, request_urls, nodes, idx, lvars>>

\* a := removeWhitespace(text); b := removeWhitespace(node.Text); lcss_chunked is called
TextCall ==
    /\ hpc = "text_loop"
    /\ idx <= Len(nodes)
    /\ hpc' = "text_call"
    /\ lpc' = "entry"
    /\ a' = removeWhitespace(text)
    /\ b' = removeWhitespace(nodes[idx].Text)
    /\ pass' = 0 /\ s' = <<>> /\ i' = 0 /\ chunks' = <<>>
    /\ best' = <<>> /\ best_len' = 0 /\ lret' = <<>>
    /\ UNCHANGED <<text, request_urls, nodes, idx, panicked>>

\* lcss_chunked returned common; node.IsMatch is set
TextReturn ==
    /\ hpc = "text_call"
    /\ lpc = "returned"
    /\ IsMatchByText(lret, text) # "panic"
    /\ nodes' = [nodes EXCEPT ![idx].IsMatch = (IsMatchByText(lret, text) = "true")]
    /\ idx' = idx + 1
    /\ hpc' = "text_loop"
    /\ lpc' = "idle"
    /\ UNCHANGED <<text, request_urls, panicked, a, b, pass, s, i, chunks, best, best_len, lret>>

\* lcss_chunked returned common; the division by len(text) panics
TextReturnPanic ==
    /\ hpc = "text_call"
    /\ lpc = "returned"
    /\ IsMatchByText(lret, text) = "panic"
    /\ hpc' = "panic"
    /\ panicked' = "integer divide by zero"
    /\ lpc' = "idle"
    /\ UNCHANGED <<text, request_urls, nodes, idx, a, b, pass, s, i, chunks, best, best_len, lret>>

\* the loop over the edges is over: c.JSON(http.StatusOK, respData)
HandleRespond ==
    /\ hpc \in {"url_loop", "text_loop"}
    /\ idx > Len(nodes)
    /\ hpc' = "done"
    /\ UNCHANGED <<text, request_urls, nodes, idx, panicked, lvars>>

\* ------------------------------------------------------------------ SpecLcss
Letters == {97, 98}

\* the longer argument: a marker between a run of one byte and a run of another
Embedded ==
    {Rep(f, p) \o m \o Rep(g, q) :
        f \in Letters, g \in Letters, m \in SeqsUpTo(Letters, MaxA),
        p \in 0..MaxPad, q \in 0..MaxPad}

LongInputs == {w \in Embedded : Len(w) <= MaxA + MaxPad}

DriverIdle == x = <<>> /\ y = <<>> /\ dcall = 0 /\ r1 = <<>> /\ r2 = <<>>
UrlIdle == url1 = BadUrl /\ url2 = BadUrl /\ e12 = "none" /\ e21 = "none"
HandlerIdle ==
    /\ hpc = "idle" /\ text = <<>> /\ request_urls = <<>> /\ nodes = <<>>
    /\ idx = 0 /\ panicked = "none"

\* the test driver has called lcss_chunked(x, y)
InitLcss ==
    /\ x \in SeqsUpTo(Letters, MaxA)
    /\ y \in LongInputs
    /\ dcall = 1
    /\ r1 = <<>> /\ r2 = <<>>
    /\ lpc = "entry" /\ a = x /\ b = y
    /\ pass = 0 /\ s = <<>> /\ i = 0 /\ chunks = <<>>
    /\ best = <<>> /\ best_len = 0 /\ lret = <<>>
    /\ UrlIdle
    /\ HandlerIdle

\* lcss_chunked(x, y) returned; lcss_chunked(y, x) is called
DriverSecondCall ==
    /\ dcall = 1
    /\ lpc = "returned"
    /\ r1' = lret
    /\ dcall' = 2
    /\ lpc' = "entry" /\ a' = y /\ b' = x
    /\ pass' = 0 /\ s' = <<>> /\ i' = 0 /\ chunks' = <<>>
    /\ best' = <<>> /\ best_len' = 0 /\ lret' = <<>>
    /\ UNCHANGED <<x, y, r2>>

\* lcss_chunked(y, x) returned
DriverDone ==
    /\ dcall = 2
    /\ lpc = "returned"
    /\ r2' = lret
    /\ dcall' = 3
    /\ lpc' = "idle"
    /\ UNCHANGED <<a, b, pass, s, i, chunks, best, best_len, lret, x, y, r1>>

NextLcss ==
    \/ LcssSwap /\ UNCHANGED <<dvars, uvars, hvars>>
    \/ LcssDirect /\ UNCHANGED <<dvars, uvars, hvars>>
    \/ LcssChunked /\ UNCHANGED <<dvars, uvars, hvars>>
    \/ ChunkIter /\ UNCHANGED <<dvars, uvars, hvars>>
    \/ ChunkExhaust /\ UNCHANGED <<dvars, uvars, hvars>>
    \/ ChunkReturn /\ UNCHANGED <<dvars, uvars, hvars>>
    \/ ScanFirst /\ UNCHANGED <<dvars, uvars, hvars>>
    \/ ScanSecond /\ UNCHANGED <<dvars, uvars, hvars>>
    \/ DriverSecondCall /\ UNCHANGED <<uvars, hvars>>
    \/ DriverDone /\ UNCHANGED <<uvars, hvars>>

SpecLcss == InitLcss /\ [][NextLcss]_vars

\* ------------------------------------------------------------------ properties of lcss_chunked
\* w occurs in str as a contiguous run
Occurs(w, str) ==
    \E j \in 0..(Len(str) - Len(w)) : SubSeq(str, j + 1, j + Len(w)) = w

\* the lengths of the common substrings of p and q
CommonLens(p, q) ==
    {k \in 0..Min(Len(p), Len(q)) :
        \E j \in 0..(Len(p) - k) : Occurs(SubSeq(p, j + 1, j + k), q)}

\* w is a longest common substring of p and q
IsLongestCommon(w, p, q) ==
    /\ Occurs(w, p)
    /\ Occurs(w, q)
    /\ \A k \in CommonLens(p, q) : k <= Len(w)

\* the windows of the first partitioning of q for chunk size n > 0
FirstPassWindows(q, n) ==
    {Slice(q, k * n, Min((k + 1) * n, Len(q))) : k \in 0..(Len(q) \div n)}

\* chunk's loop is abandoned only when the chunk size is 0
ExhaustOnlyOnZeroChunkSize == lpc = "exhausted" => WindowSize(a) = 0

\* C1: whenever lcss_chunked returns, its result is a contiguous substring of
\* both arguments, no longer common substring exists, and its length is the
\* length the unchunked primitive gives on the same pair (in particular on the
\* two-pass windowing path).
C1_ResultIsLongestCommon ==
    lpc = "returned" =>
        /\ IsLongestCommon(lret, x, y)
        /\ Len(lret) = Len(LongestCommonSubstring(x, y))

\* C1 witness: the windowing path returned a match as long as the shorter
\* argument that no window of the first partitioning contains.
C1_Witness ==
    /\ lpc = "returned"
    /\ ~Direct(a, b)
    /\ Len(a) > 1
    /\ Len(lret) = Len(a)
    /\ \A w \in FirstPassWindows(b, WindowSize(a)) : ~Occurs(lret, w)

\* C2: lcss_chunked terminates and returns the empty sequence whenever either
\* argument is empty: chunk's loop is never abandoned and what is returned is
\* empty.
C2_EmptyArgumentReturnsEmpty ==
    (x = <<>> \/ y = <<>>) =>
        /\ lpc # "exhausted"
        /\ lpc = "returned" => lret = <<>>

\* C10: lcss_chunked(x, y) and lcss_chunked(y, x) return longest common
\* substrings of the same length, and the identical sequence when the lengths
\* of x and y differ.
C10_Symmetric ==
    dcall = 3 =>
        /\ Len(r1) = Len(r2)
        /\ IsLongestCommon(r1, x, y)
        /\ IsLongestCommon(r2, x, y)
        /\ Len(x) # Len(y) => r1 = r2

\* C10 witness: both calls returned the same non-empty result for arguments of
\* different lengths on which the primitive's choice depends on the order.
C10_Witness ==
    /\ dcall = 3
    /\ Len(x) # Len(y)
    /\ r1 = r2
    /\ r1 # <<>>
    /\ LongestCommonSubstring(x, y) # LongestCommonSubstring(y, x)


\* ------------------------------------------------------------------ properties of isEquivalent
Returned(e) == e \in {"true", "false"}

\* str without one trailing "/", if it has one
StripOneSlash(str) ==
    IF Len(str) > 0 /\ str[Len(str)] = "/" THEN SubSeq(str, 1, Len(str) - 1) ELSE str

\* the longest prefix of str that does not end in "/"
StripAllSlashes(str) ==
    LET n == CHOOSE k \in 0..Len(str) :
                 /\ k = 0 \/ str[k] # "/"
                 /\ \A m \in (k + 1)..Len(str) : str[m] = "/"
    IN  SubSeq(str, 1, n)

\* C6: isEquivalent is symmetric on URLs that parse.
C6_Symmetric ==
    (Returned(e12) /\ Returned(e21)) => e12 = e21

\* C8 as stated: isEquivalent returns false whenever the paths differ after a
\* single trailing slash is stripped from each.
C8_SingleSlashStripped ==
    (Returned(e12) /\ StripOneSlash(url1.path) # StripOneSlash(url2.path)) => e12 = "false"

\* C8 amended: isEquivalent returns false whenever the paths differ after every
\* trailing slash is stripped from each.
C8_AllSlashesStripped ==
    (Returned(e12) /\ StripAllSlashes(url1.path) # StripAllSlashes(url2.path)) => e12 = "false"

\* C8 witness: two URLs with the same host and the same query whose paths
\* differ beyond trailing slashes were compared and found not equivalent.
C8_Witness ==
    /\ e12 = "false"
    /\ url1.host = url2.host
    /\ url1.query = url2.query
    /\ StripAllSlashes(url1.path) # StripAllSlashes(url2.path)

\* ------------------------------------------------------------------ SpecUrl
InitUrl ==
    /\ url1 \in UrlStrings
    /\ url2 \in UrlStrings
    /\ e12 = "none" /\ e21 = "none"
    /\ LcssIdle
    /\ DriverIdle
    /\ HandlerIdle

\* isEquivalent(url1, url2) is called
CallForward ==
    /\ e12 = "none"
    /\ e12' = isEquivalent(url1, url2)
    /\ UNCHANGED <<url1, url2, e21>>

\* isEquivalent(url2, url1) is called
CallBackward ==
    /\ e12 # "none"
    /\ e21 = "none"
    /\ e21' = isEquivalent(url2, url1)
    /\ UNCHANGED <<url1, url2, e12>>

NextUrl ==
    \/ CallForward /\ UNCHANGED <<lvars, dvars, hvars>>
    \/ CallBackward /\ UNCHANGED <<lvars, dvars, hvars>>

SpecUrl == InitUrl /\ [][NextUrl]_vars

\* ------------------------------------------------------------------ Spec
\* most candidates in one response of the modelled requests
MaxNodes == 2

Node(txt, links) ==
    [Text |-> txt, Hyperlinks |-> [n \in DOMAIN links |-> [Url |-> links[n]]],
     IsMatch |-> FALSE]

\* query texts without a URL
PlainQueries ==
    {<<>>, <<32>>, <<97>>, <<97, 98>>, <<97, 32, 98>>, <<10, 97, 9, 98, 13>>,
     Rep(97, 20) \o Rep(98, 20),
     Rep(97, 13) \o <<10>> \o Rep(98, 13)}

\* candidates of a request whose text has no URL
PlainNodes ==
    {Node(txt, <<>>) :
        txt \in {<<>>, <<97, 98>>, <<97, 32, 98, 98>>,
                 Rep(97, 13) \o Rep(98, 13),
                 Rep(97, 12) \o <<32, 9>> \o Rep(98, 13)}}
    \cup {Node(<<98, 10>>, <<U_y1>>)}

\* query texts with URLs
UrlQueries ==
    {<<UrlToken(1)>>, <<97, 32, UrlToken(1)>>, <<UrlToken(2)>>,
     <<UrlToken(1), 32, UrlToken(3)>>, <<UrlToken(4)>>, <<UrlToken(1), 10, UrlToken(4)>>}

LinkLists ==
    {<<>>, <<U_y1>>, <<U_y1z2>>, <<U_slash>>, <<BadUrl, U_y1>>, <<U_other, U_y1z2>>}

\* candidates of a request whose text is txt and has URLs
UrlNodes(txt) == {Node(t2, links) : t2 \in {<<97, 98>>, txt}, links \in LinkLists}

Batches(S) == UNION {[1..k -> S] : k \in 1..MaxNodes}

\* a request arrived: text is the query, nodes the candidates Cofacts returned
Init ==
    /\ hpc = "start"
    /\ \/ text \in PlainQueries /\ nodes \in Batches(PlainNodes)
       \/ text \in UrlQueries /\ nodes \in Batches(UrlNodes(text))
    /\ request_urls = <<>>
    /\ idx = 0
    /\ panicked = "none"
    /\ LcssIdle
    /\ DriverIdle
    /\ UrlIdle

Next ==
    \/ HandleApiError /\ UNCHANGED <<dvars, uvars>>
    \/ HandleStart /\ UNCHANGED <<dvars, uvars>>
    \/ UrlIter /\ UNCHANGED <<dvars, uvars>>
    \/ UrlIterPanic /\ UNCHANGED <<dvars, uvars>>
    \/ TextCall /\ UNCHANGED <<dvars, uvars>>
    \/ hpc = "text_call" /\ LcssSwap /\ UNCHANGED <<dvars, uvars, hvars>>
    \/ hpc = "text_call" /\ LcssDirect /\ UNCHANGED <<dvars, uvars, hvars>>
    \/ hpc = "text_call" /\ LcssChunked /\ UNCHANGED <<dvars, uvars, hvars>>
    \/ hpc = "text_call" /\ ChunkIter /\ UNCHANGED <<dvars, uvars, hvars>>
    \/ hpc = "text_call" /\ ChunkExhaust /\ UNCHANGED <<dvars, uvars, hvars>>
    \/ hpc = "text_call" /\ ChunkReturn /\ UNCHANGED <<dvars, uvars, hvars>>
    \/ hpc = "text_call" /\ ScanFirst /\ UNCHANGED <<dvars, uvars, hvars>>
    \/ hpc = "text_call" /\ ScanSecond /\ UNCHANGED <<dvars, uvars, hvars>>
    \/ TextReturn /\ UNCHANGED <<dvars, uvars>>
    \/ TextReturnPanic /\ UNCHANGED <<dvars, uvars>>
    \/ HandleRespond /\ UNCHANGED <<dvars, uvars>>

Spec == Init /\ [][Next]_vars

\* ------------------------------------------------------------------ properties of handleCofacts
NoUrlIn(txt) == \A n \in DOMAIN txt : ~IsUrlToken(txt[n])

IsWhitespace(c) == c \in {9, 10, 13, 32}
NotWhitespace(c) == ~IsWhitespace(c)
Stripped(str) == SelectSeq(str, NotWhitespace)

\* p and q have a common substring of length k
HaveCommon(p, q, k) ==
    \E j \in 0..(Len(p) - k) : Occurs(SubSeq(p, j + 1, j + k), q)

\* the length of the longest common substring of p and q
LongestCommonLen(p, q) ==
    CHOOSE k \in 0..Min(Len(p), Len(q)) :
        /\ HaveCommon(p, q, k)
        /\ \A k2 \in (k + 1)..Min(Len(p), Len(q)) : ~HaveCommon(p, q, k2)

\* the common length the text branch decides candidate n on
CommonOf(n) == LongestCommonLen(Stripped(text), Stripped(nodes[n].Text))

\* some hyperlink of candidate n is equivalent to some URL of the query text
HasEquivalentUrl(n) ==
    \E m \in DOMAIN nodes[n].Hyperlinks :
        \E k \in DOMAIN FindAllString(text) :
            isEquivalent(nodes[n].Hyperlinks[m].Url, FindAllString(text)[k]) = "true"

\* C3: with the query URL http://example.com/x?y=1, a candidate whose attached
\* URL is http://example.com/x?y=1&z=2 is matched.
C3_ExtraParameterMatches ==
    (hpc = "done" /\ request_urls = <<U_y1>>) =>
        \A n \in DOMAIN nodes :
            nodes[n].Hyperlinks = <<[Url |-> U_y1z2]>> => nodes[n].IsMatch

\* C4: a URL that fails to parse does not keep a candidate whose own URLs all
\* parse, one of them equivalent to a query URL, from ending with is_match true.
C4_ParseErrorConfined ==
    (hpc \in {"done", "panic"} /\ ~NoUrlIn(text)) =>
        \A n \in DOMAIN nodes :
            ( /\ \A m \in DOMAIN nodes[n].Hyperlinks : nodes[n].Hyperlinks[m].Url.valid
              /\ HasEquivalentUrl(n) )
            => nodes[n].IsMatch

C7_UrlDecision ==
    (hpc = "done" /\ ~NoUrlIn(text)) =>
        \A n \in DOMAIN nodes : nodes[n].IsMatch = HasEquivalentUrl(n)

\* C7 witness: a candidate whose text is the query verbatim was not matched,
\* next to a matched candidate with another text.
C7_Witness ==
    /\ hpc = "done"
    /\ ~NoUrlIn(text)
    /\ \E n \in DOMAIN nodes : nodes[n].Text = text /\ ~nodes[n].IsMatch
    /\ \E n \in DOMAIN nodes : nodes[n].Text # text /\ nodes[n].IsMatch

\* C9: with an empty query text and a candidate to decide, the decision fails
\* with the division by zero: it neither completes nor fails to terminate.
C9_EmptyQueryDividesByZero ==
    (text = <<>> /\ nodes # <<>> /\ hpc \notin {"start", "error500"}) =>
        /\ lpc # "exhausted"
        /\ hpc # "done"
        /\ hpc = "panic" => panicked = "integer divide by zero"

====
